---- MODULE Spec2Model ----
(***************************************************************************)
(* Model of auto/automaton.py: the computer player of Clue-Less.           *)
(*                                                                         *)
(* A Player keeps a tracking pad (one table per tracked player, keyed by   *)
(* card, with column c1 "holds the card" and column c2 "set of round       *)
(* tokens"), its location and the set of its prior moves.  The server      *)
(* calls receive_cards, update and take_turn; each call runs to its end    *)
(* before the next one starts.                                             *)
(*                                                                         *)
(* A call is modelled in three positions: the server places the call       *)
(* (pc = "called", the argument in call), the handler runs as one step     *)
(* (pc = "returned", the result in ret), the server takes the result       *)
(* (pc = "idle").                                                          *)
(***************************************************************************)
EXTENDS Integers, Sequences, FiniteSets, TLC

VARIABLES
    cls_player_count,   \* Player._player_count, the class attribute
    instances,          \* the Player objects constructed so far, in order
    total_players,      \* total_players given to the constructor: tables of the pad
    player_id,          \* self.player_id
    c1,                 \* self._pad: c1[p][card], column c1 of the table of player p
    c2,                 \* self._pad: c2[p][card], column c2 of the table of player p
    location,           \* self._location
    prior_moves,        \* self._prior_moves
    pc,                 \* "idle", "called" or "returned"
    call,               \* the call in progress: [op, hand, gs]
    ret,                \* what the last handler returned or raised
    steps               \* number of calls placed so far

vars == <<cls_player_count, instances, total_players, player_id, c1, c2,
          location, prior_moves, pc, call, ret, steps>>

pad_vars == <<total_players, player_id, c1, c2>>
loc_vars == <<location, prior_moves>>
cls_vars == <<cls_player_count, instances>>

(***************************************************************************)
(* Bounds of the model.                                                    *)
(***************************************************************************)
MaxInstances == 6       \* constructions explored
MaxPlayers == 5         \* largest total_players explored
MaxSteps == 2           \* calls explored per behaviour

(***************************************************************************)
(* Constants of the program.                                               *)
(***************************************************************************)
PlayerLimit == 5        \* "if self._player_count <= 5"
MinHand == 3            \* "if not 3 <= len(dealt_cards) <= 6"
MaxHand == 6
TablesScanned == 4      \* "if i == 4" in _get_unknown_cards
AccusationSize == 3     \* "if len(unverified_cards) == 3"

(***************************************************************************)
(* The pad (auto.pad.Pad).  Its tables are keyed by the cards of the deck; *)
(* the model keeps six of the twenty-one cards.  The tracked players are   *)
(* p01 .. p0n, written 1 .. n, in the order of the pad's keys.             *)
(***************************************************************************)
SuspectCards == {"Mustard", "Plum"}
WeaponCards == {"Rope", "Wrench"}
RoomCards == {"Study", "Hall"}
Deck == <<"Mustard", "Plum", "Rope", "Wrench", "Study", "Hall">>

Range(s) == {s[i] : i \in DOMAIN s}

Cards == Range(Deck)

PlayerCounts == 3..MaxPlayers

Players(n) == 1..n

PadKeys(n) == [i \in 1..n |-> i]

EmptyC1(n) == [p \in Players(n) |-> [card \in Cards |-> 0]]

EmptyC2(n) == [p \in Players(n) |-> [card \in Cards |-> {}]]


(***************************************************************************)
(* What a handler returns or raises.                                       *)
(***************************************************************************)
Ret(kind, card, cards, move) == [kind |-> kind, card |-> card, cards |-> cards, move |-> move]

NoRet == Ret("none", "", {}, "")

NoCall == [op |-> "none", hand |-> <<>>, gs |-> [none |-> TRUE]]

(***************************************************************************)
(* receive_cards                                                           *)
(***************************************************************************)
\* _verify_card: the card is one of the cards of the pad's tables
VerifyCard(card_to_verify) == card_to_verify \in Cards

\* a slip of _mark_my_cards_on_pad: the first card dealt is not marked
MarkMyCardsOnPadButFirst(t1, pid, dealt_cards) ==
    [t1 EXCEPT ![pid] =
        [card \in Cards |->
            IF dealt_cards # <<>> /\ card \in Range(Tail(dealt_cards)) THEN 1
            ELSE t1[pid][card]]]

\* _mark_my_cards_on_pad: c1 of the own table, one card after the other
RECURSIVE MarkMyCardsOnPad(_, _, _)
MarkMyCardsOnPad(t1, pid, dealt_cards) ==
    IF dealt_cards = <<>> THEN t1
    ELSE MarkMyCardsOnPad([t1 EXCEPT ![pid][Head(dealt_cards)] = 1],
                          pid, Tail(dealt_cards))

\* a slip of the verification loop: each card is marked as soon as it is
\* verified, so the cards before an invalid one stay marked
RECURSIVE VerifyCardsMarking(_, _, _)
VerifyCardsMarking(t1, pid, dealt_cards) ==
    IF dealt_cards = <<>> THEN [raised |-> "", c1 |-> t1]
    ELSE IF ~VerifyCard(Head(dealt_cards)) THEN [raised |-> "ValueError", c1 |-> t1]
    ELSE VerifyCardsMarking([t1 EXCEPT ![pid][Head(dealt_cards)] = 1],
                            pid, Tail(dealt_cards))

\* the verification loop of receive_cards: the first card that is not valid
\* raises; nothing is marked before every card is verified
RECURSIVE VerifyCards(_, _, _)
VerifyCards(t1, pid, dealt_cards) ==
    IF dealt_cards = <<>> THEN [raised |-> "", c1 |-> t1]
    ELSE IF ~VerifyCard(Head(dealt_cards)) THEN [raised |-> "ValueError", c1 |-> t1]
    ELSE VerifyCards(t1, pid, Tail(dealt_cards))

\* receive_cards: [raised, c1] for pad column t1 and the hand dealt_cards
ReceiveCardsOutcome(t1, pid, dealt_cards) ==
    IF ~(MinHand <= Len(dealt_cards) /\ Len(dealt_cards) <= MaxHand)
    THEN [raised |-> "IndexError", c1 |-> t1]
    ELSE LET verified == VerifyCards(t1, pid, dealt_cards)
         IN  IF verified.raised # "" THEN verified
             ELSE [raised |-> "", c1 |-> MarkMyCardsOnPad(t1, pid, dealt_cards)]


(***************************************************************************)
(* update: answering a suggestion                                          *)
(***************************************************************************)
\* a slip of _answer: the card is looked up in the table of every player
RECURSIVE AnswerAnyTable(_, _, _)
AnswerAnyTable(t1, pid, suggestion) ==
    IF suggestion = <<>> THEN "no_match"
    ELSE IF Head(suggestion) \in Cards
            /\ \E p \in DOMAIN t1 : t1[p][Head(suggestion)] = 1
         THEN Head(suggestion)
         ELSE AnswerAnyTable(t1, pid, Tail(suggestion))

\* _answer: the first card of the suggestion marked in c1 of the own table
RECURSIVE Answer(_, _, _)
Answer(t1, pid, suggestion) ==
    IF suggestion = <<>> THEN "no_match"
    ELSE IF Head(suggestion) \in Cards /\ t1[pid][Head(suggestion)] = 1
         THEN Head(suggestion)
         ELSE Answer(t1, pid, Tail(suggestion))

(***************************************************************************)
(* update: recording an answer                                             *)
(***************************************************************************)
\* a slip of new_entry: the third cell is left out of the union
NewEntryTwoCells(cell01, cell02, cell03) ==
    Cardinality(cell01 \cup cell02) + 1

\* new_entry = len(cell01.union(cell02.union(cell03))) + 1
NewEntry(cell01, cell02, cell03) ==
    Cardinality(cell01 \cup (cell02 \cup cell03)) + 1

\* _mark_pad, has_card is True: the last three cards of game_state['cards']
\* are popped and the new entry is added to their c2 cells of the responding
\* player's table
MarkHasCard(t2, responding_player, cards) ==
    LET card01 == cards[Len(cards)]
        card02 == cards[Len(cards) - 1]
        card03 == cards[Len(cards) - 2]
        tbl == t2[responding_player]
        new_entry == NewEntry(tbl[card01], tbl[card02], tbl[card03])
    IN  [t2 EXCEPT ![responding_player] =
            [card \in Cards |->
                IF card \in {card01, card02, card03}
                THEN tbl[card] \cup {new_entry}
                ELSE tbl[card]]]

\* a slip of _clear_c2_cells: the last player of players_list is skipped
ClearC2CellsButLast(t2, n, card_provided) ==
    [player \in Players(n) |->
        IF player < n THEN [t2[player] EXCEPT ![card_provided] = {}] ELSE t2[player]]

\* _clear_c2_cells: the c2 cell of the card is cleared in the table of every
\* player of the pad's players_list
ClearC2Cells(t2, n, card_provided) ==
    [player \in Players(n) |-> [t2[player] EXCEPT ![card_provided] = {}]]

\* a slip of the else branch of _mark_pad: the mark of the card is moved to
\* the responding player, the other tables lose it
MarkCardProvidedMoves(t1, responding_player, card_provided) ==
    [p \in DOMAIN t1 |->
        [t1[p] EXCEPT ![card_provided] = IF p = responding_player THEN 1 ELSE 0]]

\* _mark_pad, the else branch: the card answered is marked in c1 of the
\* responding player's table
MarkCardProvided(t1, responding_player, card_provided) ==
    [t1 EXCEPT ![responding_player][card_provided] = 1]

\* the loop over the pad's keys of _get_unknown_cards for one card: key k,
\* counter i, added = the card has been added to unverified_cards
RECURSIVE ScanTables(_, _, _, _, _, _)
ScanTables(t1, keys, card, k, i, added) ==
    IF k > Len(keys) THEN added
    ELSE IF t1[keys[k]][card] = 1 THEN added
    ELSE ScanTables(t1, keys, card, k + 1, i + 1, added \/ (i + 1 = TablesScanned))

\* _get_unknown_cards
GetUnknownCards(t1, n) ==
    {card \in Cards : ScanTables(t1, PadKeys(n), card, 1, 0, FALSE)}

\* _analyze_table_to_accuse: the unknown cards when they are three, else None
\* (written {})
AnalyzeTableToAccuse(t1, n) ==
    LET unverified_cards == GetUnknownCards(t1, n)
    IN  IF Cardinality(unverified_cards) = AccusationSize
        THEN unverified_cards ELSE {}

\* _mark_pad: [c1, c2, accusation]
MarkPad(t1, t2, n, game_state) ==
    LET answer == game_state.answer
        responding_player == answer.from_player
    IN  IF "has_card" \in DOMAIN answer /\ answer.has_card = TRUE
        THEN LET m2 == MarkHasCard(t2, responding_player, game_state.cards)
             IN  [c1 |-> t1, c2 |-> m2, accusation |-> AnalyzeTableToAccuse(t1, n)]
        ELSE IF "has_card" \in DOMAIN answer /\ answer.has_card = FALSE
        THEN [c1 |-> t1, c2 |-> t2, accusation |-> AnalyzeTableToAccuse(t1, n)]
        ELSE LET m1 == MarkCardProvided(t1, responding_player, answer.card)
                 m2 == ClearC2Cells(t2, n, answer.card)
             IN  [c1 |-> m1, c2 |-> m2, accusation |-> AnalyzeTableToAccuse(m1, n)]

\* {'accusation': {'from_player': ..., 'cards': ...}, 'turn_complete': True}
Accusation(from_player, cards) ==
    [kind |-> "accusation", card |-> "", cards |-> cards, move |-> "",
     from_player |-> from_player]

\* a slip of update: the answer of the payload is recorded before the
\* suggestion is looked at
UpdateOutcomeAnswerFirst(t1, t2, n, pid, game_state) ==
    IF "answer" \in DOMAIN game_state
    THEN LET marked == MarkPad(t1, t2, n, game_state)
         IN  [c1 |-> marked.c1, c2 |-> marked.c2,
              ret |-> IF marked.accusation = {} THEN Ret("turn_complete", "", {}, "")
                      ELSE Accusation(pid, marked.accusation)]
    ELSE IF /\ "suggestion" \in DOMAIN game_state
            /\ "to_player" \in DOMAIN game_state.suggestion
            /\ game_state.suggestion.to_player = pid
    THEN LET card == Answer(t1, pid, game_state.suggestion.cards)
         IN  [c1 |-> t1, c2 |-> t2,
              ret |-> IF card = "no_match" THEN Ret("no_match", "", {}, "")
                      ELSE Ret("card", card, {}, "")]
    ELSE [c1 |-> t1, c2 |-> t2, ret |-> Ret("None", "", {}, "")]

\* a slip of update: a no_match is taken down on the pad, the c2 cells of the
\* three cards asked are cleared in the own table
UpdateOutcomeNoMatchClears(t1, t2, n, pid, game_state) ==
    IF /\ "suggestion" \in DOMAIN game_state
       /\ "to_player" \in DOMAIN game_state.suggestion
       /\ game_state.suggestion.to_player = pid
    THEN LET card == Answer(t1, pid, game_state.suggestion.cards)
         IN  IF card = "no_match"
             THEN [c1 |-> t1,
                   c2 |-> [t2 EXCEPT ![pid] =
                             [asked \in Cards |->
                                 IF asked \in Range(game_state.suggestion.cards)
                                 THEN {} ELSE t2[pid][asked]]],
                   ret |-> Ret("no_match", "", {}, "")]
             ELSE [c1 |-> t1, c2 |-> t2, ret |-> Ret("card", card, {}, "")]
    ELSE IF "answer" \in DOMAIN game_state
    THEN LET marked == MarkPad(t1, t2, n, game_state)
         IN  [c1 |-> marked.c1, c2 |-> marked.c2,
              ret |-> IF marked.accusation = {} THEN Ret("turn_complete", "", {}, "")
                      ELSE Accusation(pid, marked.accusation)]
    ELSE [c1 |-> t1, c2 |-> t2, ret |-> Ret("None", "", {}, "")]

\* a slip of update: a suggestion is answered whoever it is addressed to
UpdateOutcomeAnswersAll(t1, t2, n, pid, game_state) ==
    IF /\ "suggestion" \in DOMAIN game_state
       /\ "to_player" \in DOMAIN game_state.suggestion
    THEN LET card == Answer(t1, pid, game_state.suggestion.cards)
         IN  [c1 |-> t1, c2 |-> t2,
              ret |-> IF card = "no_match" THEN Ret("no_match", "", {}, "")
                      ELSE Ret("card", card, {}, "")]
    ELSE IF "answer" \in DOMAIN game_state
    THEN LET marked == MarkPad(t1, t2, n, game_state)
         IN  [c1 |-> marked.c1, c2 |-> marked.c2,
              ret |-> IF marked.accusation = {} THEN Ret("turn_complete", "", {}, "")
                      ELSE Accusation(pid, marked.accusation)]
    ELSE [c1 |-> t1, c2 |-> t2, ret |-> Ret("None", "", {}, "")]

\* update: [c1, c2, ret].  A result of kind "turn_complete" is
\* {'turn_complete': True}; an accusation carries 'turn_complete': True too.
UpdateOutcome(t1, t2, n, pid, game_state) ==
    IF /\ "suggestion" \in DOMAIN game_state
       /\ "to_player" \in DOMAIN game_state.suggestion
       /\ game_state.suggestion.to_player = pid
    THEN LET card == Answer(t1, pid, game_state.suggestion.cards)
         IN  [c1 |-> t1, c2 |-> t2,
              ret |-> IF card = "no_match" THEN Ret("no_match", "", {}, "")
                      ELSE Ret("card", card, {}, "")]
    ELSE IF "answer" \in DOMAIN game_state
    THEN LET marked == MarkPad(t1, t2, n, game_state)
         IN  [c1 |-> marked.c1, c2 |-> marked.c2,
              ret |-> IF marked.accusation = {} THEN Ret("turn_complete", "", {}, "")
                      ELSE Accusation(pid, marked.accusation)]
    ELSE [c1 |-> t1, c2 |-> t2, ret |-> Ret("None", "", {}, "")]


(***************************************************************************)
(* take_turn.  The board (auto.board.Board) is a graph of rooms and        *)
(* hallways; the model keeps the four locations from the Hall to the       *)
(* hallway of Mustard.                                                     *)
(***************************************************************************)
Locations == {"Hall", "Hallway_02", "Lounge", "Hallway_03"}

\* Board.neighborhood(current_location, 1)
Neighborhood(current_location) ==
    CASE current_location = "Hall" -> {"Hallway_02"}
      [] current_location = "Hallway_02" -> {"Hall", "Lounge"}
      [] current_location = "Lounge" -> {"Hallway_02", "Hallway_03"}
      [] current_location = "Hallway_03" -> {"Lounge"}
      [] OTHER -> {}

\* _next_moves
NextMoves(current_location) == Neighborhood(current_location)

\* a slip of _set_location: the prior moves start again from the position
\* reported
SetLocationRestarts(prior, pid, game_state) ==
    [location |-> game_state.positions[pid],
     prior_moves |-> {game_state.positions[pid]}]

\* _set_location: [location, prior_moves]
SetLocation(prior, pid, game_state) ==
    [location |-> game_state.positions[pid],
     prior_moves |-> prior \cup {game_state.positions[pid]}]

\* a slip of _filter_moves: the fallback forgets the occupied locations
FilterMovesFallbackOccupied(current_location, prior, game_state) ==
    LET next_moves == NextMoves(current_location)
        occupied_locations == Range(game_state.positions)
        available_moves == (next_moves \ occupied_locations) \ prior
    IN  IF available_moves = {}
        THEN IF Cardinality(next_moves) > 0
             THEN {{pick_me} : pick_me \in next_moves}
             ELSE {{}}
        ELSE {available_moves}

\* a slip of _filter_moves: the prior moves are not taken out
FilterMovesKeepPrior(current_location, prior, game_state) ==
    {NextMoves(current_location) \ Range(game_state.positions)}

\* a slip of _filter_moves: no fallback to a move already made
FilterMovesNoFallback(current_location, prior, game_state) ==
    {(NextMoves(current_location) \ Range(game_state.positions)) \ prior}

\* _filter_moves after _set_location: the sets available_moves it can return
\* (random.sample picks any one possible move)
FilterMoves(current_location, prior, game_state) ==
    LET next_moves == NextMoves(current_location)
        occupied_locations == Range(game_state.positions)
        available_moves == (next_moves \ occupied_locations) \ prior
    IN  IF available_moves = {}
        THEN LET possible_moves == next_moves \ occupied_locations
             IN  IF Cardinality(possible_moves) > 0
                 THEN {{pick_me} : pick_me \in possible_moves}
                 ELSE {{}}
        ELSE {available_moves}

\* _make_move: the results [move, prior_moves] it can give; the loop returns
\* in its first iteration, whichever move the set yields first
MakeMove(available_moves, prior) ==
    IF available_moves = {} THEN {[move |-> "", prior_moves |-> prior]}
    ELSE {[move |-> move,
           prior_moves |-> IF move \notin prior THEN prior \cup {move} ELSE prior]
          : move \in available_moves}

\* take_turn: the results [location, prior_moves, move] it can give
TakeTurnOutcomes(prior, pid, game_state) ==
    LET set == SetLocation(prior, pid, game_state)
    IN  {[location |-> set.location, prior_moves |-> made.prior_moves, move |-> made.move]
         : made \in UNION {MakeMove(available_moves, set.prior_moves)
                           : available_moves \in
                               FilterMoves(set.location, set.prior_moves, game_state)}}

(***************************************************************************)
(* The constructor                                                         *)
(***************************************************************************)
AllSuspects == <<"Scarlet", "Mustard", "White", "Green", "Peacock", "Plum">>

\* _get_starting_location
GetStartingLocation(selected_player) ==
    CASE selected_player = "Scarlet" -> "Hallway_02"
      [] selected_player = "Mustard" -> "Hallway_03"
      [] selected_player = "White" -> "Hallway_05"
      [] selected_player = "Green" -> "Hallway_06"
      [] selected_player = "Peacock" -> "Hallway_07"
      [] selected_player = "Plum" -> "Hallway_08"

\* _get_player: random.choice picks any suspect of the list
GetPlayer(available_players_list) == Range(available_players_list)

\* Player.__init__ up to the instance variables.  self._player_count reads
\* the class attribute (the new object has no attribute of its own yet), and
\* "self._player_count += 1" stores the sum in the object: the class
\* attribute keeps its value.  [raised, cls, obj]
Construct(cls_count, selected_suspect) ==
    IF cls_count <= PlayerLimit
    THEN [raised |-> "", cls |-> cls_count,
          obj |-> [player_count |-> cls_count + 1,
                   selected_suspect |-> selected_suspect,
                   location |-> GetStartingLocation(selected_suspect)]]
    ELSE [raised |-> "IndexError", cls |-> cls_count, obj |-> <<>>]


(***************************************************************************)
(* The calls the server makes.                                             *)
(***************************************************************************)
\* hands dealt.  "Unicorn" is no card of the deck.
InDeckOrder(S) == SelectSeq(Deck, LAMBDA card : card \in S)

\* hands receive_cards accepts: every hand of MinHand cards, and the first
\* cards of the deck for the longer ones
ValidHands ==
    {InDeckOrder(S) : S \in {T \in SUBSET Cards : Cardinality(T) = MinHand}}
    \cup {SubSeq(Deck, 1, k) : k \in (MinHand + 1)..MaxHand}

\* hands it rejects: too short, too long, or with an unknown card first, in
\* the middle or last
InvalidHands ==
    {SubSeq(Deck, 1, k) : k \in 0..(MinHand - 1)}
    \cup {Deck \o <<"Mustard">>, Deck \o <<"Unicorn">>}
    \cup {<<"Unicorn", "Mustard", "Rope">>, <<"Mustard", "Unicorn", "Rope">>,
          <<"Mustard", "Rope", "Unicorn">>,
          <<"Mustard", "Plum", "Rope", "Wrench", "Study", "Unicorn">>}

Hands == ValidHands \cup InvalidHands

\* the players whose answers the server reports: the first and the last of
\* the pad
Responders(n) == {1, n}

\* suggestions: one suspect, one weapon, one room
Suggestions == {<<s, w, r>> : s \in SuspectCards, w \in WeaponCards, r \in RoomCards}

\* the orders in which the three cards are listed
Orders == {<<1, 2, 3>>, <<2, 3, 1>>, <<3, 2, 1>>}

OrderedSuggestions == {<<t[o[1]], t[o[2]], t[o[3]]>> : t \in Suggestions, o \in Orders}

\* {'suggestion': {'to_player': q, 'cards': [...]}}: a question to player q
Question(q, cards) == [suggestion |-> [to_player |-> q, cards |-> cards]]

\* {'move': ..., 'suggestion': {'from_player': q, 'cards': [...]}}: the turn of
\* player q, addressed to nobody
TurnTaken(q, cards) ==
    [move |-> "Lounge", suggestion |-> [from_player |-> q, cards |-> cards]]

\* a failed move
MoveFailed(b) == [make_move |-> b]

\* {'answer': {'from_player': p, 'has_card': True}, 'cards': [...]}
Signal(p, cards) == [answer |-> [from_player |-> p, has_card |-> TRUE], cards |-> cards]

\* {'answer': {'from_player': p, 'has_card': False}}
Denial(p) == [answer |-> [from_player |-> p, has_card |-> FALSE]]

\* {'move_made': True, 'answer': {'from_player': p, 'card': card}}
Reveal(p, card) == [move_made |-> TRUE, answer |-> [from_player |-> p, card |-> card]]

\* a question to player q together with q's answer
QuestionAnswered(q, cards, card) ==
    [suggestion |-> [to_player |-> q, cards |-> cards],
     answer |-> [from_player |-> q, card |-> card]]

\* {'positions': {p: location, ...}}.  _filter_moves reads the position of
\* this player and the values of the dictionary, so the other players are
\* listed in the order of the board: cut[i] of them stand at the first i
\* locations of BoardOrder.
BoardOrder == <<"Hall", "Hallway_02", "Lounge", "Hallway_03">>

Cuts(n) == {cut \in (0..(n - 1)) \X (0..(n - 1)) \X (0..(n - 1)) :
               cut[1] <= cut[2] /\ cut[2] <= cut[3]}

Behind(k, cut) ==
    (IF k > cut[1] THEN 1 ELSE 0) + (IF k > cut[2] THEN 1 ELSE 0)
        + (IF k > cut[3] THEN 1 ELSE 0)

Positions(n, pid) ==
    {[p \in Players(n) |->
        IF p = pid THEN own
        ELSE BoardOrder[1 + Behind(IF p > pid THEN p - 1 ELSE p, cut)]]
     : own \in Locations, cut \in Cuts(n)}

TurnState(positions) == [positions |-> positions]

PlaceCall(op, hand, gs) ==
    /\ pc = "idle"
    /\ pc' = "called"
    /\ call' = [op |-> op, hand |-> hand, gs |-> gs]
    /\ ret' = NoRet
    /\ UNCHANGED <<cls_vars, pad_vars, loc_vars>>

CallReceiveCards(hand) ==
    /\ steps < MaxSteps
    /\ steps' = steps + 1
    /\ PlaceCall("receive_cards", hand, [none |-> TRUE])

CallUpdate(gs) ==
    /\ steps < MaxSteps
    /\ steps' = steps + 1
    /\ PlaceCall("update", <<>>, gs)

CallTakeTurn(gs) ==
    /\ steps < MaxSteps
    /\ steps' = steps + 1
    /\ PlaceCall("take_turn", <<>>, gs)

(***************************************************************************)
(* The handlers, each one step.                                            *)
(***************************************************************************)
ReceiveCards ==
    /\ pc = "called" /\ call.op = "receive_cards"
    /\ LET outcome == ReceiveCardsOutcome(c1, player_id, call.hand)
       IN  /\ c1' = outcome.c1
           /\ ret' = IF outcome.raised # "" THEN Ret(outcome.raised, "", {}, "")
                     ELSE Ret("None", "", {}, "")
    /\ pc' = "returned"
    /\ UNCHANGED <<cls_vars, total_players, player_id, c2, loc_vars, call, steps>>

Update ==
    /\ pc = "called" /\ call.op = "update"
    /\ LET outcome == UpdateOutcome(c1, c2, total_players, player_id, call.gs)
       IN  /\ c1' = outcome.c1
           /\ c2' = outcome.c2
           /\ ret' = outcome.ret
    /\ pc' = "returned"
    /\ UNCHANGED <<cls_vars, total_players, player_id, loc_vars, call, steps>>

TakeTurn ==
    /\ pc = "called" /\ call.op = "take_turn"
    /\ \E outcome \in TakeTurnOutcomes(prior_moves, player_id, call.gs) :
           /\ location' = outcome.location
           /\ prior_moves' = outcome.prior_moves
           /\ ret' = Ret("move", "", {}, outcome.move)
    /\ pc' = "returned"
    /\ UNCHANGED <<cls_vars, pad_vars, call, steps>>

\* the server takes the result
Return ==
    /\ pc = "returned"
    /\ pc' = "idle"
    /\ call' = NoCall
    /\ ret' = NoRet
    /\ UNCHANGED <<cls_vars, pad_vars, loc_vars, steps>>

\* Player(player_id, available_suspects_list, total_players) for one more
\* object of the class
NewPlayer ==
    /\ Len(instances) < MaxInstances
    /\ \E selected_suspect \in GetPlayer(AllSuspects) :
           LET made == Construct(cls_player_count, selected_suspect)
           IN  /\ cls_player_count' = made.cls
               /\ instances' = IF made.raised = "" THEN Append(instances, made.obj)
                               ELSE instances
               /\ ret' = IF made.raised = "" THEN Ret("None", "", {}, "")
                         ELSE Ret(made.raised, "", {}, "")
    /\ UNCHANGED <<pad_vars, loc_vars, pc, call, steps>>

(***************************************************************************)
(* Specifications.                                                         *)
(***************************************************************************)
\* the class before any Player is constructed
InitCtor ==
    /\ cls_player_count = 0
    /\ instances = <<>>
    /\ total_players = 0 /\ player_id = 0
    /\ c1 = <<>> /\ c2 = <<>>
    /\ location = "" /\ prior_moves = {}
    /\ pc = "idle" /\ call = NoCall /\ ret = NoRet /\ steps = 0

\* one Player right after Player(player_id, available_suspects_list,
\* total_players), the first object of the class
Constructed(available_suspects_list) ==
    /\ cls_player_count = 0
    /\ \E n \in PlayerCounts, pid \in {1},
          selected_suspect \in GetPlayer(available_suspects_list) :
          LET made == Construct(0, selected_suspect)
          IN  /\ instances = <<made.obj>>
              /\ total_players = n
              /\ player_id = pid
              /\ c1 = EmptyC1(n)
              /\ c2 = EmptyC2(n)
              /\ location = made.obj.location
              /\ prior_moves = {made.obj.location}
    /\ pc = "idle" /\ call = NoCall /\ ret = NoRet /\ steps = 0

Init == Constructed(<<"Scarlet">>)

InitMove == Constructed(<<"Scarlet", "Mustard">>)

\* receive_cards and update
Next ==
    \/ \E hand \in Hands : CallReceiveCards(hand)
    \/ \E cards \in OrderedSuggestions : CallUpdate(Question(player_id, cards))
    \/ \E q \in Players(total_players) \ {player_id} :
           CallUpdate(Question(q, <<"Mustard", "Rope", "Study">>))
    \/ \E q \in Players(total_players) \ {player_id} :
           CallUpdate(TurnTaken(q, <<"Mustard", "Rope", "Study">>))
    \/ \E b \in BOOLEAN : CallUpdate(MoveFailed(b))
    \/ \E p \in Responders(total_players), cards \in Suggestions :
           CallUpdate(Signal(p, cards))
    \/ \E p \in Responders(total_players) : CallUpdate(Denial(p))
    \/ \E p \in Responders(total_players), card \in Cards : CallUpdate(Reveal(p, card))
    \/ \E q \in Responders(total_players), card \in {"Mustard", "Study"} :
           CallUpdate(QuestionAnswered(q, <<"Mustard", "Rope", "Study">>, card))
    \/ ReceiveCards
    \/ Update
    \/ Return

Spec == Init /\ [][Next]_vars

\* take_turn
NextMove ==
    \/ \E positions \in Positions(total_players, player_id) :
           CallTakeTurn(TurnState(positions))
    \/ TakeTurn
    \/ Return

SpecMove == InitMove /\ [][NextMove]_vars

\* receive_cards, update and take_turn in any order, each with a few of its
\* arguments: a hand accepted and a hand rejected, one payload of each shape,
\* and the other players standing together on one location
PositionsTogether(n, pid) ==
    {[p \in Players(n) |-> IF p = pid THEN own ELSE other]
     : own \in Locations, other \in Locations}

NextAll ==
    \/ \E hand \in {<<"Mustard", "Plum", "Rope">>, <<"Mustard", "Unicorn", "Rope">>} :
           CallReceiveCards(hand)
    \/ CallUpdate(Question(player_id, <<"Mustard", "Rope", "Study">>))
    \/ CallUpdate(TurnTaken(total_players, <<"Mustard", "Rope", "Study">>))
    \/ \E p \in Responders(total_players) :
           CallUpdate(Signal(p, <<"Mustard", "Rope", "Study">>))
    \/ \E p \in Responders(total_players) : CallUpdate(Denial(p))
    \/ \E p \in Responders(total_players), card \in {"Mustard", "Wrench"} :
           CallUpdate(Reveal(p, card))
    \/ \E positions \in PositionsTogether(total_players, player_id) :
           CallTakeTurn(TurnState(positions))
    \/ ReceiveCards
    \/ Update
    \/ TakeTurn
    \/ Return

SpecAll == InitMove /\ [][NextAll]_vars

\* constructions
NextCtor == NewPlayer

SpecCtor == InitCtor /\ [][NextCtor]_vars


(***************************************************************************)
(* Properties.                                                             *)
(***************************************************************************)
Called(op) == pc = "called" /\ call.op = op

Returned(op) == pc = "returned" /\ call.op = op

\* the shapes of the payload of update
IsQuestionToMe(gs) ==
    /\ "suggestion" \in DOMAIN gs
    /\ "to_player" \in DOMAIN gs.suggestion
    /\ gs.suggestion.to_player = player_id

IsAnswer(gs) == ~IsQuestionToMe(gs) /\ "answer" \in DOMAIN gs

IsSignal(gs) ==
    IsAnswer(gs) /\ "has_card" \in DOMAIN gs.answer /\ gs.answer.has_card = TRUE

IsDenial(gs) ==
    IsAnswer(gs) /\ "has_card" \in DOMAIN gs.answer /\ gs.answer.has_card = FALSE

IsReveal(gs) == IsAnswer(gs) /\ "has_card" \notin DOMAIN gs.answer

\* C1: at most PlayerLimit (5) Player objects ever exist: the construction
\* after the fifth fails.
C1_AtMostFivePlayers == Len(instances) <= 5

\* C2: receive_cards with a hand of fewer than 3 or more than 6 cards raises
\* IndexError, with a hand of 3 to 6 cards one of which is no card of the deck
\* it raises ValueError, and in both cases no cell of the pad changes.
C2_RejectedHandLeavesPad ==
    [][Called("receive_cards") =>
        LET hand == call.hand
            size_ok == 3 <= Len(hand) /\ Len(hand) <= 6
            cards_ok == \A i \in DOMAIN hand : hand[i] \in Cards
        IN  /\ ~size_ok => ret'.kind = "IndexError"
            /\ (size_ok /\ ~cards_ok) => ret'.kind = "ValueError"
            /\ ~(size_ok /\ cards_ok) => (c1' = c1 /\ c2' = c2)]_vars

\* a hand whose last card is unknown was rejected when the pad held marks
C2_Witness ==
    /\ Returned("receive_cards")
    /\ ret.kind = "ValueError"
    /\ Len(call.hand) = 3 /\ call.hand[3] \notin Cards /\ call.hand[1] \in Cards
    /\ \E p \in Players(total_players), card \in Cards : c1[p][card] = 1

\* C3: receive_cards with 3 to 6 cards of the deck sets c1 = 1 in the own
\* table for the cards of the hand and changes no other c1 cell, no cell of
\* another player's table and no c2 set.
C3_HandMarkedExactly ==
    [][(/\ Called("receive_cards")
        /\ 3 <= Len(call.hand) /\ Len(call.hand) <= 6
        /\ \A i \in DOMAIN call.hand : call.hand[i] \in Cards) =>
        /\ ret'.kind = "None"
        /\ c2' = c2
        /\ \A p \in Players(total_players), card \in Cards :
              c1'[p][card] = IF p = player_id /\ card \in Range(call.hand)
                             THEN 1 ELSE c1[p][card]]_vars

\* a hand of three cards was marked in a pad that holds round tokens
C3_Witness ==
    /\ Returned("receive_cards")
    /\ ret.kind = "None"
    /\ Len(call.hand) = 3
    /\ \A i \in 1..3 : c1[player_id][call.hand[i]] = 1
    /\ \E card \in Cards \ Range(call.hand) : c1[player_id][card] = 0
    /\ \E p \in Players(total_players), card \in Cards : c2[p][card] # {}


\* C4: the move take_turn returns is never a location among the reported
\* positions: it is the empty string or a neighbor of the reported location
\* of this player that no player occupies.
C4_MoveNeverOccupied ==
    Returned("take_turn") =>
        /\ ret.move \notin Range(call.gs.positions)
        /\ \/ ret.move = ""
           \/ ret.move \in Neighborhood(call.gs.positions[player_id])

\* a move was returned although another neighbor was occupied
C4_Witness ==
    /\ Returned("take_turn")
    /\ ret.move # ""
    /\ \E l \in Neighborhood(location) : l \in Range(call.gs.positions)

\* C5: when some neighbor of the reported location is unoccupied and not yet
\* visited, the move returned is such a neighbor.
C5_PrefersUnvisited ==
    [][Called("take_turn") =>
        LET current == call.gs.positions[player_id]
            visited == prior_moves \cup {current}
            fresh == (Neighborhood(current) \ Range(call.gs.positions)) \ visited
        IN  fresh # {} => ret'.move \in fresh]_vars

\* the first turn, reported in the Lounge by the player who started in
\* Hallway_02: both hallways are free, and the move is the unvisited one
C5_Witness ==
    /\ Returned("take_turn")
    /\ steps = 1
    /\ instances[1].location = "Hallway_02"
    /\ location = "Lounge"
    /\ Range(call.gs.positions) \cap {"Hallway_02", "Hallway_03"} = {}
    /\ ret.move = "Hallway_03"

\* C6: when every unoccupied neighbor is already visited and there is one,
\* the move returned is one of them; the empty move is returned only when
\* every neighbor is occupied.
C6_FallbackToVisited ==
    [][Called("take_turn") =>
        LET current == call.gs.positions[player_id]
            visited == prior_moves \cup {current}
            free == Neighborhood(current) \ Range(call.gs.positions)
        IN  /\ (free # {} /\ free \subseteq visited) => ret'.move \in free
            /\ ret'.move = "" => free = {}]_vars

\* the first turn, reported in the Hall by the player who started in
\* Hallway_02: the only neighbor is visited and free, and it is the move
C6_Witness ==
    /\ Returned("take_turn")
    /\ steps = 1
    /\ instances[1].location = "Hallway_02"
    /\ location = "Hall"
    /\ "Hallway_02" \notin Range(call.gs.positions)
    /\ ret.move = "Hallway_02"

\* C7: the answer to a question to this player is the first card of the
\* suggestion, in its order, marked in c1 of the own table, and no_match when
\* none is; the tables of the other players play no part.
C7_AnswerFirstOwnCard ==
    [][(Called("update") /\ IsQuestionToMe(call.gs)) =>
        LET cards == call.gs.suggestion.cards
            held == {i \in DOMAIN cards : c1[player_id][cards[i]] = 1}
        IN  IF held = {} THEN ret'.kind = "no_match"
            ELSE /\ ret'.kind = "card"
                 /\ \E i \in held : /\ ret'.card = cards[i]
                                    /\ \A j \in held : i <= j]_vars

\* the second card of the suggestion was answered: the first is not held,
\* and the third is held too
C7_Witness ==
    /\ Returned("update") /\ IsQuestionToMe(call.gs)
    /\ ret.kind = "card"
    /\ ret.card = call.gs.suggestion.cards[2]
    /\ c1[player_id][call.gs.suggestion.cards[1]] = 0
    /\ c1[player_id][call.gs.suggestion.cards[3]] = 1

\* C8: a signal has_card = True from player P for three cards adds the one
\* token n + 1 to the c2 sets of P for the three cards, n being the size of
\* the union of those three sets; nothing else changes.
C8_SignalAddsNextToken ==
    [][(Called("update") /\ IsSignal(call.gs)) =>
        LET P == call.gs.answer.from_player
            three == Range(call.gs.cards)
            n == Cardinality(UNION {c2[P][card] : card \in three})
        IN  /\ c1' = c1
            /\ \A p \in Players(total_players), card \in Cards :
                  c2'[p][card] = IF p = P /\ card \in three
                                 THEN c2[p][card] \cup {n + 1}
                                 ELSE c2[p][card]]_vars

\* the second signal of P: X carries tokens 1 and 2, W and V token 2, Y and
\* Z token 1
C8_Witness ==
    /\ Returned("update") /\ IsSignal(call.gs)
    /\ LET P == call.gs.answer.from_player
           three == Range(call.gs.cards)
       IN  /\ \E X \in three : /\ c2[P][X] = {1, 2}
                               /\ \A card \in three \ {X} : c2[P][card] = {2}
           /\ Cardinality({card \in Cards \ three : c2[P][card] = {1}}) = 2

\* C9: a reveal of card c by player P sets c1 of P for c to 1 and empties
\* the c2 set of c in the table of every player; the other c1 cells and the
\* c2 sets of the other cards keep their values.
C9_RevealMarksAndClears ==
    [][(Called("update") /\ IsReveal(call.gs)) =>
        LET P == call.gs.answer.from_player
            c == call.gs.answer.card
        IN  \A p \in Players(total_players), card \in Cards :
              /\ c1'[p][card] = IF p = P /\ card = c THEN 1 ELSE c1[p][card]
              /\ c2'[p][card] = IF card = c THEN {} ELSE c2[p][card]]_vars

\* a card was revealed by P after another player q had signalled it: of the
\* three cards of q's signal two still carry the token
C9_Witness ==
    /\ Returned("update") /\ IsReveal(call.gs)
    /\ LET P == call.gs.answer.from_player
           c == call.gs.answer.card
       IN  /\ c1[P][c] = 1
           /\ \E q \in Players(total_players) \ {P, player_id} :
                 /\ c2[q][c] = {}
                 /\ Cardinality({card \in Cards : c2[q][card] = {1}}) = 2

\* C10: the accusation check produces an accusation exactly when the set of
\* unknown cards (no tracked player's c1 is 1) has exactly 3 cards, whatever
\* the number of tracked players.
C10_AccusesIffThreeUnknown ==
    LET unknown == {card \in Cards :
                        \A p \in Players(total_players) : c1[p][card] # 1}
    IN  (Returned("update") /\ IsAnswer(call.gs)) =>
            (ret.kind = "accusation" <=> Cardinality(unknown) = 3)

\* C11: update fires one branch per call, the suggestion addressed to this
\* player first: such a payload returns the answer of _answer (a card or
\* no_match) and records nothing, even when it carries an answer as well;
\* otherwise a payload with an answer is recorded and the call returns
\* turn_complete, with an accusation in the name of this player exactly when
\* the accusation check on the recorded pad gives one.
C11_UpdateDispatch ==
    [][Called("update") =>
        /\ IsQuestionToMe(call.gs) =>
              /\ ret'.kind \in {"card", "no_match"}
              /\ ret'.kind = "card" =>
                    /\ ret'.card \in Range(call.gs.suggestion.cards)
                    /\ c1[player_id][ret'.card] = 1
              /\ ret'.kind = "no_match" =>
                    \A card \in Range(call.gs.suggestion.cards) : c1[player_id][card] # 1
              /\ c1' = c1 /\ c2' = c2
        /\ IsAnswer(call.gs) =>
              /\ ret'.kind \in {"turn_complete", "accusation"}
              /\ ret'.kind = "accusation" <=> AnalyzeTableToAccuse(c1', total_players) # {}
              /\ ret'.kind = "accusation" =>
                    /\ ret'.from_player = player_id
                    /\ ret'.cards = AnalyzeTableToAccuse(c1', total_players)
              /\ IsReveal(call.gs) => c1'[call.gs.answer.from_player][call.gs.answer.card] = 1
              /\ IsSignal(call.gs) => c2' # c2
    ]_vars

\* a payload with a suggestion addressed to this player and an answer naming
\* a card has been answered with a card, and the card of the answer is not
\* marked
C11_Witness ==
    /\ Returned("update")
    /\ IsQuestionToMe(call.gs)
    /\ "answer" \in DOMAIN call.gs
    /\ ret.kind = "card"
    /\ c1[player_id][call.gs.answer.card] = 0

\* C12: an update whose payload has no answer and no suggestion addressed to
\* this player does nothing: it raises nothing, returns None (no answer, no
\* accusation) and leaves the pad, the location and the prior moves as they
\* were.
C12_UnmatchedUpdateIsNoOp ==
    [][(Called("update") /\ ~IsQuestionToMe(call.gs) /\ "answer" \notin DOMAIN call.gs) =>
        /\ ret'.kind = "None"
        /\ UNCHANGED <<pad_vars, loc_vars>>
    ]_vars

\* a suggestion addressed to another player, naming a card this player
\* holds, has been ignored
C12_Witness ==
    /\ Returned("update")
    /\ "suggestion" \in DOMAIN call.gs
    /\ "to_player" \in DOMAIN call.gs.suggestion
    /\ call.gs.suggestion.to_player # player_id
    /\ "answer" \notin DOMAIN call.gs
    /\ \E card \in Range(call.gs.suggestion.cards) : c1[player_id][card] = 1
    /\ ret.kind = "None"

\* C13: the token an undirected true signal of player P adds is fresh: it is
\* in none of the c2 cells of P's table before the call, so a token links the
\* cards of one single response.
C13_TokenIsFresh ==
    [][(Called("update") /\ IsSignal(call.gs)) =>
        LET P == call.gs.answer.from_player
            cards == call.gs.cards
            token == NewEntry(c2[P][cards[Len(cards)]], c2[P][cards[Len(cards) - 1]],
                              c2[P][cards[Len(cards) - 2]])
        IN  /\ \A card \in Range(cards) : token \in c2'[P][card]
            /\ \A card \in Cards : token \notin c2[P][card]
    ]_vars

\* C14: a card whose holder is known (c1 is 1 in the table of some tracked
\* player) has an empty c2 cell in the table of every player.
C14_KnownCardHasNoTokens ==
    \A card \in Cards :
        (\E p \in Players(total_players) : c1[p][card] = 1) =>
            \A q \in Players(total_players) : c2[q][card] = {}

\* C15: for each card at most one tracked player's c1 is 1.
C15_AtMostOneHolder ==
    \A card \in Cards :
        Cardinality({p \in Players(total_players) : c1[p][card] = 1}) <= 1

\* C16: an accusation returned by update names exactly three cards, none of
\* them marked in c1 of the table of any tracked player.
C16_AccusationIsUnknown ==
    (Returned("update") /\ ret.kind = "accusation") =>
        /\ Cardinality(ret.cards) = 3
        /\ \A card \in ret.cards :
              \A p \in Players(total_players) : c1[p][card] # 1

\* C17: the prior moves only grow.  They start as the starting location
\* alone; take_turn adds the position the server reports and the move it
\* returns, when there is one; update and receive_cards leave them alone.
C17_PriorMovesOnlyGrow ==
    /\ prior_moves = {location}
    /\ [][/\ prior_moves \subseteq prior_moves'
          /\ Called("take_turn") =>
                /\ location' = call.gs.positions[player_id]
                /\ prior_moves' = (prior_moves \cup {location'})
                                      \cup ({ret'.move} \ {""})
          /\ ~Called("take_turn") => UNCHANGED loc_vars
       ]_vars

\* after a receive_cards, a take_turn from a new position has returned a move
\* not made before: three locations are prior moves
C17_Witness ==
    /\ Returned("take_turn")
    /\ steps = 2
    /\ c1[player_id]["Mustard"] = 1
    /\ ret.move # ""
    /\ Cardinality(prior_moves) = 3

\* C18: answering a suggestion addressed to this player has no side effect:
\* every c1 cell and every c2 cell of every table, the location and the prior
\* moves are after the call what they were before, whether a card or no_match
\* is returned.
C18_AnswerHasNoSideEffect ==
    [][(Called("update") /\ IsQuestionToMe(call.gs)) =>
        /\ ret'.kind \in {"card", "no_match"}
        /\ c1' = c1
        /\ c2' = c2
        /\ location' = location
        /\ prior_moves' = prior_moves
    ]_vars

\* a suggestion addressed to this player has been answered with no_match
\* while its own table holds tokens for the cards asked
C18_Witness ==
    /\ Returned("update")
    /\ IsQuestionToMe(call.gs)
    /\ "answer" \notin DOMAIN call.gs
    /\ ret.kind = "no_match"
    /\ \A card \in Range(call.gs.suggestion.cards) : c2[player_id][card] # {}

\* C19: an answer with has_card = False changes no cell of the pad, and the
\* call returns an accusation exactly when the pad, unchanged, has three
\* unknown cards (cards no tracked player's c1 marks).
C19_DenialStillChecksAccusation ==
    [][(Called("update") /\ IsDenial(call.gs)) =>
        LET unknown == {card \in Cards :
                            \A p \in Players(total_players) : c1[p][card] # 1}
        IN  /\ c1' = c1
            /\ c2' = c2
            /\ ret'.kind = "accusation" <=> Cardinality(unknown) = 3
    ]_vars

\* C20: column c1 is monotone.  No step resets a c1 cell from 1 to 0, so the
\* set of unknown cards (no tracked player's c1 is 1, and likewise the set
\* _get_unknown_cards computes) never gains a card; take_turn changes no cell
\* of the pad.
C20_Column1Monotone ==
    [][LET unknown(t1) == {card \in Cards :
                              \A p \in Players(total_players) : t1[p][card] # 1}
       IN  /\ \A p \in Players(total_players), card \in Cards :
                 c1[p][card] = 1 => c1'[p][card] = 1
           /\ unknown(c1') \subseteq unknown(c1)
           /\ GetUnknownCards(c1', total_players) \subseteq GetUnknownCards(c1, total_players)
           /\ Called("take_turn") => (c1' = c1 /\ c2' = c2)
    ]_vars

\* a card dealt to this player has been revealed by another player: the
\* mark in the own table is still there
C20_Witness ==
    /\ Returned("update")
    /\ IsReveal(call.gs)
    /\ call.gs.answer.from_player # player_id
    /\ c1[call.gs.answer.from_player][call.gs.answer.card] = 1
    /\ c1[player_id][call.gs.answer.card] = 1

====
